---- MODULE Spec2Model ----
(***************************************************************************)
(* State-machine model of the PDF question-answering repository.           *)
(*                                                                         *)
(* Four entry points are modelled, selected by the variable app:           *)
(*   "streamlit_app"   the web session of src/src/pdf_rag/ui/streamlit_app *)
(*   "main"            the CLI: RAGSystem and initialize_system of         *)
(*                     src/pdf_rag_app                                     *)
(*   "pdf_loader"      a caller of PDFLoader (src/pdf_rag_app)             *)
(*   "text_processing" a caller of TextProcessor (src/src/pdf_rag/utils)   *)
(* The last two apply the classes to arguments fixed at the start (input). *)
(*                                                                         *)
(* Strings whose characters matter are sequences of one-character strings. *)
(* A Python None is the empty tuple, a present value x is <<x>>.           *)
(***************************************************************************)
EXTENDS Integers, Sequences, FiniteSets, TLC

VARIABLES
    app,                  \* which entry point runs
    input,                \* the arguments a caller of the chunker classes has
    \* ---- web session (st.session_state, streamlit_app.py:45-56)
    vector_store,         \* handle: "None" or "VectorStore"
    embedding_generator,  \* handle: "None" or "EmbeddingGenerator"
    llm,                  \* handle: "None" or "OpenRouterLLM"
    retriever,            \* handle: "None" or "RAGRetriever"
    documents_loaded,     \* BOOLEAN
    chat_history,         \* sequence of [question, answer, sources]
    collection,           \* records of the persistent vector collection
    \* ---- CLI objects
    rag_system,           \* None or Some(RAGSystem fields)
    faiss_index,          \* snapshot on disk at vector_store_path: None or Some
    \* ---- chunker objects
    text_processor,       \* None or Some([chunk_size, chunk_overlap])
    pdf_loader,           \* None or Some([chunk_size, chunk_overlap])
    \* ---- the last operation executed: what was called, with what, and
    \*      what the caller observed
    last

vars == <<app, input, vector_store, embedding_generator, llm, retriever,
          documents_loaded, chat_history, collection, rag_system,
          faiss_index, text_processor, pdf_loader, last>>

webVars == <<vector_store, embedding_generator, llm, retriever,
             documents_loaded, chat_history, collection>>
cliVars == <<rag_system, faiss_index>>
textVars == <<text_processor, pdf_loader>>

None == <<>>
Some(x) == <<x>>
Val(o) == o[1]

\* ------------------------------------------------------------------ bounds
MaxIndex == 3       \* most records the web collection holds
MaxChat == 1        \* most chat_history entries
MaxFiles == 2       \* most PDF files of a directory
MaxTexts == 2       \* most texts of one create_documents call
MaxSize == 3        \* largest chunk_size / chunk_overlap tried
MaxLen == 3         \* longest text given to the chunker classes

Str1(a) == <<a>>
Str2(a, b) == <<a, b>>
Str3(a, b, c) == <<a, b, c>>

\* The record every action leaves in last.
Op(op, outcome, arg, ret, calls) ==
    [op |-> op, outcome |-> outcome, arg |-> arg, ret |-> ret, calls |-> calls]

\* ----------------------------------------------------------- the chunker
\* RecursiveCharacterTextSplitter as TextProcessor and PDFLoader use it.  The
\* input texts of this model contain none of the separators "\n\n", "\n",
\* ". ", " ", so the splitter falls through to its last separator "" and
\* splits into single characters, then merges them.

RECURSIVE Flatten(_)
Flatten(ss) ==
    IF ss = <<>> THEN <<>> ELSE Head(ss) \o Flatten(Tail(ss))

\* _join_docs: the joined text, or nothing when it is empty.
JoinDocs(current_doc) ==
    LET text == Flatten(current_doc)
    IN  IF text = <<>> THEN <<>> ELSE <<text>>

RECURSIVE SumLen(_)
SumLen(ss) == IF ss = <<>> THEN 0 ELSE Len(Head(ss)) + SumLen(Tail(ss))

\* The while loop of _merge_splits that drops the head of current_doc until
\* the kept tail is at most chunk_overlap long and the next split fits.
RECURSIVE PopOverlap(_, _, _, _)
PopOverlap(current_doc, len, chunk_size, chunk_overlap) ==
    LET total == SumLen(current_doc)
    IN  IF total > chunk_overlap \/ (total + len > chunk_size /\ total > 0)
        THEN PopOverlap(Tail(current_doc), len, chunk_size, chunk_overlap)
        ELSE current_doc

\* _merge_splits(splits, separator = ""): greedy merge with overlap.
RECURSIVE MergeFrom(_, _, _, _, _)
MergeFrom(splits, docs, current_doc, chunk_size, chunk_overlap) ==
    IF splits = <<>>
    THEN docs \o JoinDocs(current_doc)
    ELSE LET d == Head(splits)
             full == SumLen(current_doc) + Len(d) > chunk_size
             flush == full /\ current_doc # <<>>
             docs2 == IF flush THEN docs \o JoinDocs(current_doc) ELSE docs
             cur2 == IF flush
                     THEN PopOverlap(current_doc, Len(d), chunk_size, chunk_overlap)
                     ELSE current_doc
         IN  MergeFrom(Tail(splits), docs2, Append(cur2, d),
                       chunk_size, chunk_overlap)

MergeSplits(splits, chunk_size, chunk_overlap) ==
    MergeFrom(splits, <<>>, <<>>, chunk_size, chunk_overlap)

\* _split_text with the separator "": a character shorter than chunk_size
\* is a good split to be merged; one that is not is emitted on its own after
\* the pending good splits are merged.
RECURSIVE SplitFrom(_, _, _, _, _)
SplitFrom(text, final_chunks, good_splits, chunk_size, chunk_overlap) ==
    IF text = <<>>
    THEN final_chunks \o MergeSplits(good_splits, chunk_size, chunk_overlap)
    ELSE LET s == <<Head(text)>>
         IN  IF Len(s) < chunk_size
             THEN SplitFrom(Tail(text), final_chunks, Append(good_splits, s),
                            chunk_size, chunk_overlap)
             ELSE SplitFrom(Tail(text),
                            (final_chunks
                               \o MergeSplits(good_splits, chunk_size, chunk_overlap))
                               \o <<s>>,
                            <<>>, chunk_size, chunk_overlap)

\* TextProcessor.split_text
split_text(text, chunk_size, chunk_overlap) ==
    SplitFrom(text, <<>>, <<>>, chunk_size, chunk_overlap)

\* ------------------------------------------------------- the web session
\* What rag_config.yaml supplies to the session (document_processing and
\* retrieval sections).
RagConfig == [chunk_size |-> 2, chunk_overlap |-> 1, k |-> 2]

\* The PDF files a user may upload: pdf_loader.load either raises or returns
\* the extracted text and the page count.
UploadedFiles ==
    { [name |-> "bad.pdf", readable |-> FALSE, num_pages |-> 0, text |-> <<>>],
      [name |-> "empty.pdf", readable |-> TRUE, num_pages |-> 1, text |-> <<>>],
      [name |-> "one.pdf", readable |-> TRUE, num_pages |-> 1,
       text |-> Str2("a", "b")],
      [name |-> "two.pdf", readable |-> TRUE, num_pages |-> 2,
       text |-> Str3("a", "b", "a")] }

\* The text the user may have typed into the question box.
Questions == {"", "q1"}

NoInfoMessage ==
    "I couldn't find any relevant information in the uploaded documents to answer your question."

\* RecursiveCharacterTextSplitter.__init__ refuses an overlap larger than
\* the chunk size (ValueError), and nothing else.
SplitterRejects(chunk_size, chunk_overlap) == chunk_overlap > chunk_size

\* VectorStore.add_documents: appends one record per text.
add_documents(coll, texts, metadatas) ==
    coll \o [i \in 1..Len(texts) |-> [text |-> texts[i], metadata |-> metadatas[i]]]

\* VectorStore.reset_collection: discards every record.
reset_collection(coll) == <<>>

\* VectorStore.get_collection_count
get_collection_count(coll) == Len(coll)

\* RAGRetriever.retrieve: a ranked list of at most k records of the
\* collection that pass the score threshold; which ones is decided by the
\* embedding distances, which are not modelled, so every ranked choice of
\* distinct records is possible, the empty one included.
RetrieveResults(coll, k) ==
    LET Ranked(n) == { ps \in [1..n -> 1..Len(coll)] :
                          \A i, j \in 1..n : i # j => ps[i] # ps[j] }
    IN  UNION { { [i \in 1..n |-> coll[ps[i]]] : ps \in Ranked(n) } : n \in 0..k }

\* The metadata list process_pdf builds for the chunks of one file.
ChunkMetadatas(file, chunks) ==
    [i \in 1..Len(chunks) |->
        [source |-> file.name, page_count |-> file.num_pages, chunk_index |-> i - 1]]

\* initialize_components: each component that is still None is constructed,
\* in the order embedding_generator, vector_store, llm, retriever; failAt
\* names the step that raises ("config": loading the configuration), "none"
\* that nothing raises.  A constructor that is not called cannot raise.
InitOrder == <<"embedding_generator", "vector_store", "llm", "retriever">>
InitFailures == {"none", "config"} \cup {InitOrder[i] : i \in 1..4}
FailPos(failAt) ==
    IF failAt = "none" THEN 5
    ELSE IF failAt = "config" THEN 0
    ELSE CHOOSE i \in 1..4 : InitOrder[i] = failAt
Handle(i) ==
    <<"EmbeddingGenerator", "VectorStore", "OpenRouterLLM", "RAGRetriever">>[i]
Current(i) == <<embedding_generator, vector_store, llm, retriever>>[i]
CanFailAt(failAt) ==
    IF failAt \in {"none", "config"} THEN TRUE
    ELSE Current(FailPos(failAt)) = "None"
AfterInit(i, failAt) ==
    IF Current(i) = "None" /\ i < FailPos(failAt) THEN Handle(i) ELSE Current(i)
initialize_components(failAt) ==
    /\ embedding_generator' = AfterInit(1, failAt)
    /\ vector_store' = AfterInit(2, failAt)
    /\ llm' = AfterInit(3, failAt)
    /\ retriever' = AfterInit(4, failAt)

ComponentsReady ==
    /\ embedding_generator # "None"
    /\ vector_store # "None"
    /\ llm # "None"
    /\ retriever # "None"

\* main(): a script run in which initialize_components returns False, so
\* st.stop() ends the run before any widget is reached.
MainStopped(failAt) ==
    /\ app = "streamlit_app"
    /\ failAt # "none"
    /\ CanFailAt(failAt)
    /\ initialize_components(failAt)
    /\ last' = Op("main", "stopped", failAt, None, <<>>)
    /\ UNCHANGED <<app, input, documents_loaded, chat_history, collection>>
    /\ UNCHANGED cliVars
    /\ UNCHANGED textVars

\* main(): a script run with no button pressed (the first page load, the run
\* st.rerun() starts, a change of a widget other than a button).
MainRerun ==
    /\ app = "streamlit_app"
    /\ initialize_components("none")
    /\ last' = Op("main", "rendered", None, None, <<>>)
    /\ UNCHANGED <<app, input, documents_loaded, chat_history, collection>>
    /\ UNCHANGED cliVars
    /\ UNCHANGED textVars

\* process_pdf(uploaded_file): failStep names the step whose call raises.
ProcessSteps == {"none", "config", "write", "load", "embed", "store"}
ProcessOutcome(file, failStep) ==
    IF failStep \in {"config", "write"} THEN failStep
    ELSE IF ~file.readable \/ failStep = "load" THEN "load"
    ELSE IF SplitterRejects(RagConfig.chunk_size, RagConfig.chunk_overlap)
    THEN "split"
    ELSE failStep
\* process_pdf that marks the documents loaded before its steps have run.
process_pdf_marks_first(file, failStep) ==
    LET outcome == ProcessOutcome(file, failStep)
        chunks == split_text(file.text, RagConfig.chunk_size, RagConfig.chunk_overlap)
        metadatas == ChunkMetadatas(file, chunks)
    IN  IF outcome = "none"
        THEN /\ get_collection_count(collection) + Len(chunks) <= MaxIndex
             /\ collection' = add_documents(collection, chunks, metadatas)
             /\ documents_loaded' = TRUE
             /\ last' = Op("process_pdf", "True", file, chunks, <<>>)
        ELSE /\ UNCHANGED collection
             /\ documents_loaded' = TRUE
             /\ last' = Op("process_pdf", "False", file, outcome, <<>>)

process_pdf(file, failStep) ==
    LET outcome == ProcessOutcome(file, failStep)
        chunks == split_text(file.text, RagConfig.chunk_size, RagConfig.chunk_overlap)
        metadatas == ChunkMetadatas(file, chunks)
    IN  IF outcome = "none"
        THEN /\ get_collection_count(collection) + Len(chunks) <= MaxIndex
             /\ collection' = add_documents(collection, chunks, metadatas)
             /\ documents_loaded' = TRUE
             /\ last' = Op("process_pdf", "True", file, chunks, <<>>)
        ELSE /\ UNCHANGED <<collection, documents_loaded>>
             /\ last' = Op("process_pdf", "False", file, outcome, <<>>)

\* main(): a script run in which a file is uploaded and "Process PDF" is
\* pressed.
ProcessPdfClicked(file, failStep) ==
    /\ app = "streamlit_app"
    /\ initialize_components("none")
    /\ process_pdf(file, failStep)
    /\ UNCHANGED <<app, input, chat_history>>
    /\ UNCHANGED cliVars
    /\ UNCHANGED textVars

\* The "Clear Database" button is shown only when the collection count is
\* positive.
ClearOffered == get_collection_count(collection) > 0

\* The Clear Database handler without "documents_loaded = False".
ClearDatabaseClicked_keeps_flag ==
    /\ app = "streamlit_app"
    /\ initialize_components("none")
    /\ ClearOffered
    /\ collection' = reset_collection(collection)
    /\ chat_history' = <<>>
    /\ last' = Op("clear_database", "cleared", None, None, <<>>)
    /\ UNCHANGED <<app, input, documents_loaded>>
    /\ UNCHANGED cliVars
    /\ UNCHANGED textVars

\* main(): a script run in which "Clear Database" is pressed; st.rerun()
\* then starts the next run.
ClearDatabaseClicked ==
    /\ app = "streamlit_app"
    /\ initialize_components("none")
    /\ ClearOffered
    /\ collection' = reset_collection(collection)
    /\ documents_loaded' = FALSE
    /\ chat_history' = <<>>
    /\ last' = Op("clear_database", "cleared", None, None, <<>>)
    /\ UNCHANGED <<app, input>>
    /\ UNCHANGED cliVars
    /\ UNCHANGED textVars

\* The question box and the "Get Answer" button are in the else branch of
\* "if not st.session_state.documents_loaded".
CanAsk == documents_loaded

\* What a call of retriever.retrieve does: it raises, or returns a ranked list.
RetrieveOutcomes(coll, k) ==
    {[raised |-> TRUE, docs |-> <<>>]}
        \cup {[raised |-> FALSE, docs |-> d] : d \in RetrieveResults(coll, k)}

\* answer_question(question): the value it returns, the backend calls it
\* makes and the chat_history it leaves.  retrieved is what retrieve does,
\* answer what the language model yields ("raise": the call raises).
StrResult(text) == [kind |-> "str", answer |-> text, sources |-> <<>>]
TupleResult(text, sources) == [kind |-> "tuple", answer |-> text, sources |-> sources]
LlmOutcomes == {"raise", "answer"}
\* answer_question without its "if not retrieved_docs" return.
answer_question_no_shortcut(question, retrieved, answer) ==
    LET docs == retrieved.docs
    IN
    IF retrieved.raised
    THEN [ret |-> TupleResult("Error generating answer", <<>>),
          calls |-> <<"retrieve">>,
          chat_history |-> chat_history]
    ELSE IF answer = "raise"
    THEN [ret |-> TupleResult("Error generating answer", <<>>),
          calls |-> <<"retrieve", "format_context", "generate_with_context">>,
          chat_history |-> chat_history]
    ELSE [ret |-> TupleResult(answer, docs),
          calls |-> <<"retrieve", "format_context", "generate_with_context">>,
          chat_history |-> Append(chat_history,
                              [question |-> question, answer |-> answer,
                               sources |-> docs])]

answer_question(question, retrieved, answer) ==
    LET docs == retrieved.docs
    IN
    IF retrieved.raised
    THEN [ret |-> TupleResult("Error generating answer", <<>>),
          calls |-> <<"retrieve">>,
          chat_history |-> chat_history]
    ELSE IF docs = <<>>
    THEN [ret |-> StrResult(NoInfoMessage),
          calls |-> <<"retrieve">>,
          chat_history |-> chat_history]
    ELSE IF answer = "raise"
    THEN [ret |-> TupleResult("Error generating answer", <<>>),
          calls |-> <<"retrieve", "format_context", "generate_with_context">>,
          chat_history |-> chat_history]
    ELSE [ret |-> TupleResult(answer, docs),
          calls |-> <<"retrieve", "format_context", "generate_with_context">>,
          chat_history |-> Append(chat_history,
                              [question |-> question, answer |-> answer,
                               sources |-> docs])]

\* "answer, sources = answer_question(question)": unpacking succeeds on a
\* 2-tuple and raises ValueError on the message string.
Unpacks(ret) == ret.kind = "tuple"

\* main(): a script run in which "Get Answer" is pressed.
GetAnswerClicked(question, retrieved, answer) ==
    /\ app = "streamlit_app"
    /\ initialize_components("none")
    /\ CanAsk
    /\ IF question = ""
       THEN /\ last' = Op("get_answer", "no question",
                           [question |-> question], None, <<>>)
            /\ UNCHANGED chat_history
       ELSE LET r == answer_question(question, retrieved, answer)
            IN  /\ Len(r.chat_history) <= MaxChat
                /\ chat_history' = r.chat_history
                /\ last' = Op("get_answer",
                              IF Unpacks(r.ret) THEN "displayed" ELSE "ValueError",
                              [question |-> question, retrieved |-> retrieved],
                              r.ret, r.calls)
    /\ UNCHANGED <<app, input, documents_loaded, collection>>
    /\ UNCHANGED cliVars
    /\ UNCHANGED textVars

WebNext ==
    \/ \E failAt \in InitFailures : MainStopped(failAt)
    \/ MainRerun
    \/ \E file \in UploadedFiles, failStep \in ProcessSteps :
          ProcessPdfClicked(file, failStep)
    \/ ClearDatabaseClicked
    \/ \E question \in Questions,
          retrieved \in RetrieveOutcomes(collection, RagConfig.k),
          answer \in LlmOutcomes :
          GetAnswerClicked(question, retrieved, answer)

\* ------------------------------------------------------ the chunker classes
ChunkSizes == 1..MaxSize
ChunkOverlaps == 0..MaxSize

\* TextProcessor.__init__ and PDFLoader.__init__: both store the two numbers
\* and construct the splitter, whose constructor may raise.
Chunker_init(chunk_size, chunk_overlap) ==
    IF SplitterRejects(chunk_size, chunk_overlap)
    THEN [outcome |-> "ValueError", self |-> None]
    ELSE [outcome |-> "constructed",
          self |-> Some([chunk_size |-> chunk_size,
                         chunk_overlap |-> chunk_overlap])]

\* ------------------------------------------------------------ PDFLoader
\* PDF files of a directory: PyPDFLoader raises on an unreadable one and
\* returns one document per page of a readable one.
BadPdf == [name |-> "bad.pdf", readable |-> FALSE, pages |-> <<>>]
WorsePdf == [name |-> "worse.pdf", readable |-> FALSE, pages |-> <<>>]
BlankPdf == [name |-> "blank.pdf", readable |-> TRUE, pages |-> <<>>]
XPdf == [name |-> "x.pdf", readable |-> TRUE, pages |-> <<Str2("a", "b")>>]
YPdf == [name |-> "y.pdf", readable |-> TRUE, pages |-> <<Str1("b")>>]
LoaderFiles == {BadPdf, WorsePdf, BlankPdf, XPdf, YPdf}

\* The listings pdf_dir.glob("*.pdf") may give: distinct files in some order.
FileLists ==
    UNION { { fs \in [1..n -> LoaderFiles] :
                \A i, j \in 1..n : i # j => fs[i] # fs[j] } : n \in 0..MaxFiles }
NoDirectory == [exists |-> FALSE, files |-> <<>>]
Directory(fs) == [exists |-> TRUE, files |-> fs]
Directories == {NoDirectory} \cup {Directory(fs) : fs \in FileLists}

\* text_splitter.split_documents(documents): the chunks of each page, in
\* page order, each with the metadata of its page.
RECURSIVE SplitPages(_, _, _, _)
SplitPages(self, name, pages, page) ==
    IF pages = <<>> THEN <<>>
    ELSE LET chunks == split_text(Head(pages), self.chunk_size, self.chunk_overlap)
         IN  [i \in 1..Len(chunks) |->
                 [source |-> name, page |-> page, text |-> chunks[i]]]
             \o SplitPages(self, name, Tail(pages), page + 1)
split_documents(self, file) == SplitPages(self, file.name, file.pages, 0)

\* PDFLoader.load_pdf: any exception of loading or splitting is caught,
\* printed, and an empty list is returned.
load_pdf(self, file) ==
    IF file.readable
    THEN [outcome |-> "returned", chunks |-> split_documents(self, file)]
    ELSE [outcome |-> "returned", chunks |-> <<>>]

\* The loop of load_pdfs_from_directory ended by the first unreadable file.
RECURSIVE LoadEach_stops(_, _, _)
LoadEach_stops(self, pdf_files, all_chunks) ==
    IF pdf_files = <<>> \/ ~Head(pdf_files).readable THEN all_chunks
    ELSE LoadEach_stops(self, Tail(pdf_files),
                        all_chunks \o load_pdf(self, Head(pdf_files)).chunks)

\* PDFLoader.load_pdfs_from_directory: the loop over pdf_files.
RECURSIVE LoadEach(_, _, _)
LoadEach(self, pdf_files, all_chunks) ==
    IF pdf_files = <<>> THEN all_chunks
    ELSE LoadEach(self, Tail(pdf_files),
                  all_chunks \o load_pdf(self, Head(pdf_files)).chunks)
load_pdfs_from_directory(self, dir) ==
    IF ~dir.exists THEN <<>> ELSE LoadEach(self, dir.files, <<>>)

\* What a caller of PDFLoader starts with: the constructor arguments and a
\* directory.
LoaderInputs ==
    [chunk_size : ChunkSizes, chunk_overlap : ChunkOverlaps, dir : Directories]

NewPDFLoader ==
    /\ app = "pdf_loader"
    /\ last.op = "start"
    /\ LET r == Chunker_init(input.chunk_size, input.chunk_overlap)
       IN  /\ pdf_loader' = r.self
           /\ last' = Op("PDFLoader", r.outcome, None, None, <<>>)
    /\ UNCHANGED <<app, input, text_processor>>
    /\ UNCHANGED webVars
    /\ UNCHANGED cliVars

LoadPdf(n) ==
    /\ app = "pdf_loader"
    /\ pdf_loader # None
    /\ n \in 1..Len(input.dir.files)
    /\ LET file == input.dir.files[n]
           r == load_pdf(Val(pdf_loader), file)
       IN  last' = Op("load_pdf", r.outcome, file, r.chunks, <<>>)
    /\ UNCHANGED <<app, input, text_processor, pdf_loader>>
    /\ UNCHANGED webVars
    /\ UNCHANGED cliVars

LoadPdfsFromDirectory ==
    /\ app = "pdf_loader"
    /\ pdf_loader # None
    /\ last' = Op("load_pdfs_from_directory", "returned", input.dir,
                  load_pdfs_from_directory(Val(pdf_loader), input.dir), <<>>)
    /\ UNCHANGED <<app, input, text_processor, pdf_loader>>
    /\ UNCHANGED webVars
    /\ UNCHANGED cliVars

LoaderNext ==
    \/ NewPDFLoader
    \/ \E n \in 1..MaxFiles : LoadPdf(n)
    \/ LoadPdfsFromDirectory

\* ------------------------------------------------------------ RAGSystem
CliChunkSize == 1000
CliChunkOverlap == 200
QaChainK == 3

EmbeddingModels == {"A", "B"}

\* The states of the data directory initialize_system may find.
DataDirs ==
    { NoDirectory,
      Directory(<<BadPdf>>),
      Directory(<<XPdf>>),
      Directory(<<BadPdf, XPdf>>),
      Directory(<<YPdf, BadPdf>>),
      Directory(<<XPdf, YPdf>>) }

\* pdf_loader = PDFLoader(chunk_size=1000, chunk_overlap=200)
CliLoader == Val(Chunker_init(CliChunkSize, CliChunkOverlap).self)

\* The chunk lists a caller of build_vector_store may hold.
DocumentLists == { load_pdfs_from_directory(CliLoader, d) : d \in DataDirs }

\* RAGSystem.__init__: _check_ollama_connection raises ConnectionError
\* unless the server answers; otherwise both handles start unset.
RAGSystem_init(embedding_model, connected) ==
    IF connected
    THEN [outcome |-> "constructed",
          self |-> Some([embedding_model |-> embedding_model,
                         vector_store |-> None, qa_chain |-> None])]
    ELSE [outcome |-> "ConnectionError", self |-> None]

\* build_vector_store without its save_local call.
build_vector_store_skips_save(self, snapshot, documents, with_path, embedded) ==
    IF with_path /\ snapshot # None
    THEN [outcome |-> "loaded",
          self |-> [self EXCEPT !.vector_store = snapshot],
          snapshot |-> snapshot]
    ELSE IF documents = <<>>
    THEN [outcome |-> "ValueError", self |-> self, snapshot |-> snapshot]
    ELSE IF ~embedded
    THEN [outcome |-> "BackendUnavailable", self |-> self, snapshot |-> snapshot]
    ELSE [outcome |-> "built",
          self |-> [self EXCEPT !.vector_store =
                       Some([built_with |-> self.embedding_model,
                             docs |-> documents])],
          snapshot |-> snapshot]

\* RAGSystem.build_vector_store(documents, vector_store_path): with_path
\* says whether a path is given, embedded whether the embedding backend
\* answers.  A FAISS store is its records and the model that embedded them.
build_vector_store(self, snapshot, documents, with_path, embedded) ==
    IF with_path /\ snapshot # None
    THEN [outcome |-> "loaded",
          self |-> [self EXCEPT !.vector_store = snapshot],
          snapshot |-> snapshot]
    ELSE IF documents = <<>>
    THEN [outcome |-> "ValueError", self |-> self, snapshot |-> snapshot]
    ELSE IF ~embedded
    THEN [outcome |-> "BackendUnavailable", self |-> self, snapshot |-> snapshot]
    ELSE LET store == Some([built_with |-> self.embedding_model,
                            docs |-> documents])
         IN  [outcome |-> "built",
              self |-> [self EXCEPT !.vector_store = store],
              snapshot |-> IF with_path THEN store ELSE snapshot]

\* setup_qa_chain without its "if not self.vector_store" check: the chain is
\* made over whatever the store is, an empty one when there is none.
setup_qa_chain_unchecked(self) ==
    [outcome |-> "set up",
     self |-> [self EXCEPT !.qa_chain =
                  Some([retriever |->
                           IF self.vector_store = None
                           THEN [built_with |-> self.embedding_model, docs |-> <<>>]
                           ELSE Val(self.vector_store)])]]

\* RAGSystem.setup_qa_chain: the chain keeps the retriever of the store that
\* is live when it is set up.
setup_qa_chain(self) ==
    IF self.vector_store = None
    THEN [outcome |-> "ValueError", self |-> self]
    ELSE [outcome |-> "set up",
          self |-> [self EXCEPT !.qa_chain =
                       Some([retriever |-> Val(self.vector_store)])]]

\* What a call of self.qa_chain does: it raises, or answers from at most
\* k = 3 records of its retriever's store.
ChainOutcomes(self) ==
    IF self.qa_chain = None THEN {[raised |-> FALSE, docs |-> <<>>]}
    ELSE RetrieveOutcomes(Val(self.qa_chain).retriever.docs, QaChainK)

\* answer_question without its "if not self.qa_chain" check.
RAGSystem_answer_question_unchecked(self, question, chain) ==
    IF chain.raised
    THEN [outcome |-> "BackendUnavailable", ret |-> None,
          calls |-> <<"qa_chain">>, self |-> self]
    ELSE [outcome |-> "returned",
          ret |-> Some([question |-> question, answer |-> "answer",
                        sources |-> chain.docs]),
          calls |-> <<"qa_chain">>, self |-> self]

\* answer_question that drops the chain when the backend fails.
RAGSystem_answer_question_drops_chain(self, question, chain) ==
    IF self.qa_chain = None
    THEN [outcome |-> "ValueError", ret |-> None, calls |-> <<>>, self |-> self]
    ELSE IF chain.raised
    THEN [outcome |-> "BackendUnavailable", ret |-> None,
          calls |-> <<"qa_chain">>, self |-> [self EXCEPT !.qa_chain = None]]
    ELSE [outcome |-> "returned",
          ret |-> Some([question |-> question, answer |-> "answer",
                        sources |-> chain.docs]),
          calls |-> <<"qa_chain">>, self |-> self]

\* RAGSystem.answer_question
RAGSystem_answer_question(self, question, chain) ==
    IF self.qa_chain = None
    THEN [outcome |-> "ValueError", ret |-> None, calls |-> <<>>, self |-> self]
    ELSE IF chain.raised
    THEN [outcome |-> "BackendUnavailable", ret |-> None,
          calls |-> <<"qa_chain">>, self |-> self]
    ELSE [outcome |-> "returned",
          ret |-> Some([question |-> question, answer |-> "answer",
                        sources |-> chain.docs]),
          calls |-> <<"qa_chain">>, self |-> self]

Construct(embedding_model, connected) ==
    /\ app = "main"
    /\ LET r == RAGSystem_init(embedding_model, connected)
       IN  /\ rag_system' = IF r.self = None THEN rag_system ELSE r.self
           /\ last' = Op("RAGSystem", r.outcome, embedding_model, None, <<>>)
    /\ UNCHANGED <<app, input, faiss_index>>
    /\ UNCHANGED webVars
    /\ UNCHANGED textVars

BuildVectorStore(documents, with_path, embedded) ==
    /\ app = "main"
    /\ rag_system # None
    /\ LET r == build_vector_store(Val(rag_system), faiss_index, documents,
                                   with_path, embedded)
       IN  /\ rag_system' = Some(r.self)
           /\ faiss_index' = r.snapshot
           /\ last' = Op("build_vector_store", r.outcome,
                         [documents |-> documents, with_path |-> with_path],
                         None, <<>>)
    /\ UNCHANGED <<app, input>>
    /\ UNCHANGED webVars
    /\ UNCHANGED textVars

SetupQaChain ==
    /\ app = "main"
    /\ rag_system # None
    /\ LET r == setup_qa_chain(Val(rag_system))
       IN  /\ rag_system' = Some(r.self)
           /\ last' = Op("setup_qa_chain", r.outcome, None, None, <<>>)
    /\ UNCHANGED <<app, input, faiss_index>>
    /\ UNCHANGED webVars
    /\ UNCHANGED textVars

AnswerQuestion(question) ==
    /\ app = "main"
    /\ rag_system # None
    /\ \E chain \in ChainOutcomes(Val(rag_system)) :
          LET r == RAGSystem_answer_question(Val(rag_system), question, chain)
          IN  /\ rag_system' = Some(r.self)
              /\ last' = Op("answer_question", r.outcome, question, r.ret, r.calls)
    /\ UNCHANGED <<app, input, faiss_index>>
    /\ UNCHANGED webVars
    /\ UNCHANGED textVars

\* initialize_system of main.py, run at the start of a process: the objects
\* of an earlier process are gone, the snapshot on disk is not.
initialize_system(dir, embedding_model, connected, embedded) ==
    LET documents == load_pdfs_from_directory(CliLoader, dir)
        made == RAGSystem_init(embedding_model, connected)
        built == build_vector_store(Val(made.self), faiss_index, documents,
                                    TRUE, embedded)
        chained == setup_qa_chain(built.self)
    IN  IF documents = <<>>
        THEN [outcome |-> "no documents", rag_system |-> None,
              snapshot |-> faiss_index]
        ELSE IF made.self = None
        THEN [outcome |-> made.outcome, rag_system |-> None,
              snapshot |-> faiss_index]
        ELSE IF built.outcome \notin {"loaded", "built"}
        THEN [outcome |-> built.outcome, rag_system |-> None,
              snapshot |-> built.snapshot]
        ELSE [outcome |-> "initialized", rag_system |-> Some(chained.self),
              snapshot |-> built.snapshot]

InitializeSystem(dir, embedding_model, connected, embedded) ==
    /\ app = "main"
    /\ LET r == initialize_system(dir, embedding_model, connected, embedded)
       IN  /\ rag_system' = r.rag_system
           /\ faiss_index' = r.snapshot
           /\ last' = Op("initialize_system", r.outcome, dir, None, <<>>)
    /\ UNCHANGED <<app, input>>
    /\ UNCHANGED webVars
    /\ UNCHANGED textVars

CliNext ==
    \/ \E m \in EmbeddingModels, connected \in BOOLEAN : Construct(m, connected)
    \/ \E documents \in DocumentLists, with_path \in BOOLEAN, embedded \in BOOLEAN :
          BuildVectorStore(documents, with_path, embedded)
    \/ SetupQaChain
    \/ \E question \in Questions \ {""} : AnswerQuestion(question)
    \/ \E dir \in DataDirs, m \in EmbeddingModels,
          connected \in BOOLEAN, embedded \in BOOLEAN :
          InitializeSystem(dir, m, connected, embedded)

\* -------------------------------------------------------- TextProcessor
\* The texts given to split_text and create_documents: "", "a", "ab", "aba", ...
Text(n) == [i \in 1..n |-> IF i % 2 = 1 THEN "a" ELSE "b"]
Texts == { Text(n) : n \in 0..MaxLen }
TextLists == UNION { [1..n -> Texts] : n \in 0..MaxTexts }

\* The metadatas argument of create_documents: absent, or a list that may be
\* shorter than texts.  The second dict already has a chunk_index key.
MetaOf(i) ==
    IF i = 2 THEN [source |-> "s2", chunk_index |-> 9] ELSE [source |-> "s1"]
MetadataArgs(texts) ==
    {[given |-> FALSE, list |-> <<>>]}
        \cup {[given |-> TRUE, list |-> [i \in 1..m |-> MetaOf(i)]] :
                 m \in 0..Len(texts)}

\* The texts given to clean_text: characters are a letter, two of Python's
\* whitespace characters, and NUL, which stands for chr(0).
NUL == "NUL"
Whitespace == {" ", "\n"}
DirtyChars == {"a", NUL} \cup Whitespace
DirtyTexts == UNION { [1..n -> DirtyChars] : n \in 0..MaxLen }

\* The defaults of TextProcessor().
DefaultChunkSize == 1000
DefaultChunkOverlap == 200

\* What a caller of TextProcessor starts with: the arguments of the chunking
\* methods, or a TextProcessor() and a text to clean.
ProcessorInputs ==
    UNION { [chunk_size : ChunkSizes, chunk_overlap : ChunkOverlaps,
             texts : {texts}, metadatas : MetadataArgs(texts),
             text : {<<>>}] :
            texts \in TextLists }
    \cup [chunk_size : {DefaultChunkSize}, chunk_overlap : {DefaultChunkOverlap},
          texts : {<<>>}, metadatas : MetadataArgs(<<>>),
          text : DirtyTexts \ {<<>>}]

\* str.split() with no argument: the maximal runs of non-whitespace.
RECURSIVE SplitRuns(_, _, _, _)
SplitRuns(text, i, word, words) ==
    LET closed == IF word = <<>> THEN words ELSE Append(words, word)
    IN  IF i > Len(text) THEN closed
        ELSE IF text[i] \in Whitespace
             THEN SplitRuns(text, i + 1, <<>>, closed)
             ELSE SplitRuns(text, i + 1, Append(word, text[i]), words)
str_split(text) == SplitRuns(text, 1, <<>>, <<>>)

\* sep.join(words).
RECURSIVE str_join(_, _)
str_join(sep, words) ==
    IF words = <<>> THEN <<>>
    ELSE IF Len(words) = 1 THEN words[1]
    ELSE words[1] \o sep \o str_join(sep, Tail(words))

\* text.replace(old, '') for a one-character old.
str_remove(text, old) == SelectSeq(text, LAMBDA c : c # old)

\* TextProcessor.clean_text.
clean_text(text) == str_remove(str_join(<<" ">>, str_split(text)), NUL)

\* A Python dict d with d[k] = v assigned.
DictSet(d, k, v) == [x \in DOMAIN d \cup {k} |-> IF x = k THEN v ELSE d[x]]

\* The inner loop with chunk_index counted from one.
ChunkEntries_from_one(chunks, metadata) ==
    [c \in 1..Len(chunks) |->
        [text |-> chunks[c],
         metadata |-> DictSet(DictSet(metadata, "chunk_index", c),
                              "total_chunks", Len(chunks))]]

\* The inner loop of create_documents: one entry per chunk of one text.
ChunkEntries(chunks, metadata) ==
    [c \in 1..Len(chunks) |->
        [text |-> chunks[c],
         metadata |-> DictSet(DictSet(metadata, "chunk_index", c - 1),
                              "total_chunks", Len(chunks))]]

\* TextProcessor.create_documents: the outer loop over enumerate(texts).
RECURSIVE CreateFrom(_, _, _, _, _)
CreateFrom(self, texts, metadatas, i, all_chunks) ==
    IF i > Len(texts) THEN all_chunks
    ELSE LET chunks == split_text(texts[i], self.chunk_size, self.chunk_overlap)
             metadata == IF metadatas.given /\ metadatas.list # <<>>
                            /\ i - 1 < Len(metadatas.list)
                         THEN metadatas.list[i] ELSE <<>>
         IN  CreateFrom(self, texts, metadatas, i + 1,
                        all_chunks \o ChunkEntries(chunks, metadata))
create_documents(self, texts, metadatas) ==
    CreateFrom(self, texts, metadatas, 1, <<>>)

NewTextProcessor ==
    /\ app = "text_processing"
    /\ last.op = "start"
    /\ LET r == Chunker_init(input.chunk_size, input.chunk_overlap)
       IN  /\ text_processor' = r.self
           /\ last' = Op("TextProcessor", r.outcome, None, None, <<>>)
    /\ UNCHANGED <<app, input, pdf_loader>>
    /\ UNCHANGED webVars
    /\ UNCHANGED cliVars

SplitText(n) ==
    /\ app = "text_processing"
    /\ text_processor # None
    /\ n \in 1..Len(input.texts)
    /\ LET self == Val(text_processor)
           text == input.texts[n]
       IN  last' = Op("split_text", "returned", text,
                      split_text(text, self.chunk_size, self.chunk_overlap), <<>>)
    /\ UNCHANGED <<app, input, text_processor, pdf_loader>>
    /\ UNCHANGED webVars
    /\ UNCHANGED cliVars

CreateDocuments ==
    /\ app = "text_processing"
    /\ text_processor # None
    /\ last' = Op("create_documents", "returned", None,
                  create_documents(Val(text_processor), input.texts,
                                   input.metadatas), <<>>)
    /\ UNCHANGED <<app, input, text_processor, pdf_loader>>
    /\ UNCHANGED webVars
    /\ UNCHANGED cliVars

CleanText ==
    /\ app = "text_processing"
    /\ text_processor # None
    /\ last' = Op("clean_text", "returned", input.text,
                  clean_text(input.text), <<>>)
    /\ UNCHANGED <<app, input, text_processor, pdf_loader>>
    /\ UNCHANGED webVars
    /\ UNCHANGED cliVars

TextNext ==
    \/ NewTextProcessor
    \/ \E n \in 1..MaxTexts : SplitText(n)
    \/ CreateDocuments
    \/ CleanText

\* ------------------------------------------------------- the specification
\* The vector collection is persistent (persist_directory), so a session may
\* start with records of an earlier session; everything else starts unset.
EarlierRecords ==
    { <<>>,
      <<[text |-> Str2("a", "b"),
         metadata |-> [source |-> "one.pdf", page_count |-> 1, chunk_index |-> 0]]>> }

Apps == {"streamlit_app", "main", "pdf_loader", "text_processing"}

Init ==
    /\ app \in Apps
    /\ input \in (IF app = "pdf_loader" THEN LoaderInputs
                  ELSE IF app = "text_processing" THEN ProcessorInputs
                  ELSE {None})
    /\ vector_store = "None"
    /\ embedding_generator = "None"
    /\ llm = "None"
    /\ retriever = "None"
    /\ documents_loaded = FALSE
    /\ chat_history = <<>>
    /\ collection \in (IF app = "streamlit_app" THEN EarlierRecords ELSE {<<>>})
    /\ rag_system = None
    /\ faiss_index = None
    /\ text_processor = None
    /\ pdf_loader = None
    /\ last = Op("start", "", None, None, <<>>)

Next == WebNext \/ LoaderNext \/ CliNext \/ TextNext

Spec == Init /\ [][Next]_vars

\* ---------------------------------------------------------------- claims

\* C1: asking before any successful load fails fast.  CLI: answer_question
\* on a RAGSystem whose qa_chain is unset raises ValueError without calling
\* the chain.  Web: a Get Answer run happens only with documents_loaded
\* true, and documents_loaded becomes true only by a process_pdf that
\* returned True.
C1_NotReadyFailsFast ==
    [][ /\ (app = "main" /\ last'.op = "answer_question"
              /\ Val(rag_system).qa_chain = None)
           => (last'.outcome = "ValueError" /\ last'.calls = <<>>)
        /\ (app = "streamlit_app" /\ last'.op = "get_answer")
           => documents_loaded
        /\ (~documents_loaded /\ documents_loaded')
           => (last'.op = "process_pdf" /\ last'.outcome = "True")
      ]_vars

\* A RAGSystem without a chain was asked and refused.
C1_Witness ==
    /\ app = "main"
    /\ last.op = "answer_question"
    /\ last.outcome = "ValueError"
    /\ Val(rag_system).vector_store # None

\* C2: in the web session, when retrieve returns an empty list,
\* answer_question returns the fixed message and generate_with_context is
\* not called.
C2_EmptyRetrievalSkipsGeneration ==
    (/\ app = "streamlit_app"
     /\ last.op = "get_answer"
     /\ last.outcome # "no question"
     /\ ~last.arg.retrieved.raised
     /\ last.arg.retrieved.docs = <<>>)
    => /\ last.ret.answer = NoInfoMessage
       /\ \A i \in 1..Len(last.calls) : last.calls[i] # "generate_with_context"

\* Retrieval found nothing in a collection that holds records.
C2_Witness ==
    /\ app = "streamlit_app"
    /\ last.op = "get_answer"
    /\ last.outcome # "no question"
    /\ ~last.arg.retrieved.raised
    /\ last.arg.retrieved.docs = <<>>
    /\ get_collection_count(collection) > 0

\* C3: Clear Database is taken only with a positive count, and right after it
\* the count is 0, documents_loaded is false, chat_history is empty, the
\* four components are set and no question can be asked; asking becomes
\* possible again only by a process_pdf that returned True.
C3_ClearReturnsToComponentsReady ==
    [][ /\ (last'.op = "clear_database")
           => /\ get_collection_count(collection) > 0
              /\ get_collection_count(collection') = 0
              /\ ~documents_loaded'
              /\ chat_history' = <<>>
              /\ ComponentsReady'
              /\ ~CanAsk'
        /\ (~CanAsk /\ CanAsk')
           => (last'.op = "process_pdf" /\ last'.outcome = "True")
      ]_vars

\* The database was cleared.
C3_Witness ==
    /\ app = "streamlit_app"
    /\ last.op = "clear_database"
    /\ ComponentsReady

\* C4: a question step changes none of: the collection, documents_loaded,
\* the four component handles (web); the RAGSystem's fields and the
\* snapshot (CLI).
C4_AnswerLeavesStateUnchanged ==
    [][ /\ (app = "streamlit_app" /\ last'.op = "get_answer")
           => /\ collection' = collection
              /\ documents_loaded' = documents_loaded
              /\ vector_store' = vector_store
              /\ embedding_generator' = embedding_generator
              /\ llm' = llm
              /\ retriever' = retriever
        /\ (app = "main" /\ last'.op = "answer_question")
           => /\ rag_system' = rag_system
              /\ faiss_index' = faiss_index
      ]_vars

\* A question hit a backend error in the CLI with the chain set up.
C4_Witness ==
    /\ app = "main"
    /\ last.op = "answer_question"
    /\ last.outcome = "BackendUnavailable"
    /\ Val(rag_system).qa_chain # None

\* C5: process_pdf can run whatever documents_loaded is; when it returns
\* True, documents_loaded is true and the collection is the former one with
\* the new chunks appended; when it returns False, documents_loaded is as
\* before.
C5_LoadDocumentReachesReady ==
    [][ /\ (app = "streamlit_app")
           => \E file \in UploadedFiles : ENABLED ProcessPdfClicked(file, "none")
        /\ (last'.op = "process_pdf" /\ last'.outcome = "True")
           => /\ documents_loaded'
              /\ Len(collection') = Len(collection) + Len(last'.ret)
              /\ SubSeq(collection', 1, Len(collection)) = collection
              /\ \A i \in 1..Len(last'.ret) :
                    collection'[Len(collection) + i].text = last'.ret[i]
        /\ (last'.op = "process_pdf" /\ last'.outcome = "False")
           => documents_loaded' = documents_loaded
      ]_vars

\* A second document was loaded in a session that had already answered a
\* question.
C5_Witness ==
    /\ app = "streamlit_app"
    /\ last.op = "process_pdf"
    /\ last.outcome = "True"
    /\ Len(last.ret) > 0
    /\ chat_history # <<>>

\* C6: loading an unreadable PDF raises DocumentUnreadable to the caller.
C6_UnreadablePropagates ==
    (/\ app = "pdf_loader"
     /\ last.op = "load_pdf"
     /\ ~last.arg.readable)
    => last.outcome = "DocumentUnreadable"

\* The chunks of the readable files of a listing, in file order.
RECURSIVE ReadableChunks(_, _)
ReadableChunks(self, files) ==
    IF files = <<>> THEN <<>>
    ELSE (IF Head(files).readable THEN split_documents(self, Head(files))
          ELSE <<>>) \o ReadableChunks(self, Tail(files))

\* C7: load_pdfs_from_directory returns, in file order, the chunks of every
\* readable file, whatever unreadable files the directory holds.
C7_IngestContinues ==
    (/\ app = "pdf_loader"
     /\ last.op = "load_pdfs_from_directory")
    => last.ret = ReadableChunks(Val(pdf_loader), last.arg.files)

\* A readable file that comes after an unreadable one was loaded.
C7_Witness ==
    /\ app = "pdf_loader"
    /\ last.op = "load_pdfs_from_directory"
    /\ \E i, j \in 1..Len(last.arg.files) :
          /\ i < j
          /\ ~last.arg.files[i].readable
          /\ last.arg.files[j].readable
          /\ split_documents(Val(pdf_loader), last.arg.files[j]) # <<>>

\* C8: build_vector_store on a path whose snapshot was built with another
\* embedding model raises ModelMismatch and does not install the snapshot.
C8_ModelMismatchRejected ==
    (/\ app = "main"
     /\ last.op = "build_vector_store"
     /\ last.arg.with_path
     /\ faiss_index # None
     /\ Val(faiss_index).built_with # Val(rag_system).embedding_model)
    => /\ last.outcome = "ModelMismatch"
       /\ Val(rag_system).vector_store # faiss_index

\* C9: constructing TextProcessor or PDFLoader with chunk_overlap >=
\* chunk_size raises, so no chunker object has such a configuration.
C9_OverlapNotBelowSizeRejected ==
    /\ (last.op \in {"TextProcessor", "PDFLoader"}
          /\ input.chunk_overlap >= input.chunk_size)
       => last.outcome = "ValueError"
    /\ text_processor # None
       => Val(text_processor).chunk_overlap < Val(text_processor).chunk_size
    /\ pdf_loader # None
       => Val(pdf_loader).chunk_overlap < Val(pdf_loader).chunk_size

\* Number of chunks of the texts before position i.
RECURSIVE ChunksBefore(_, _, _)
ChunksBefore(self, texts, i) ==
    IF i <= 1 THEN 0
    ELSE ChunksBefore(self, texts, i - 1)
         + Len(split_text(texts[i - 1], self.chunk_size, self.chunk_overlap))

\* The metadata given for text i, if any.
ParentMetadata(metadatas, i) ==
    IF metadatas.given /\ i <= Len(metadatas.list) THEN metadatas.list[i] ELSE <<>>

\* C10: create_documents returns, text after text, one entry per chunk in
\* chunk order, with chunk_index 0..n-1 and total_chunks n for a text of n
\* chunks, each entry with every other key of its text's metadata.
C10_ChunkIndexAndTotal ==
    (/\ app = "text_processing"
     /\ last.op = "create_documents")
    => LET self == Val(text_processor)
           texts == input.texts
           out == last.ret
       IN  /\ Len(out) = ChunksBefore(self, texts, Len(texts) + 1)
           /\ \A i \in 1..Len(texts) :
                LET chunks == split_text(texts[i], self.chunk_size,
                                         self.chunk_overlap)
                    off == ChunksBefore(self, texts, i)
                    parent == ParentMetadata(input.metadatas, i)
                IN  \A c \in 1..Len(chunks) :
                       /\ out[off + c].text = chunks[c]
                       /\ out[off + c].metadata["chunk_index"] = c - 1
                       /\ out[off + c].metadata["total_chunks"] = Len(chunks)
                       /\ \A k \in DOMAIN parent \ {"chunk_index", "total_chunks"} :
                             out[off + c].metadata[k] = parent[k]

\* Two texts were given, the second of which splits into several chunks and
\* has a metadata dict of its own.
C10_Witness ==
    /\ app = "text_processing"
    /\ last.op = "create_documents"
    /\ Len(input.texts) = 2
    /\ Len(input.metadatas.list) = 2
    /\ Len(last.ret) >= 3
    /\ last.ret[Len(last.ret)].metadata["chunk_index"] >= 1

\* The order of the CLI states: a chain only over a store.
ChainOnlyOverStore(rs) ==
    rs # None => (Val(rs).qa_chain # None => Val(rs).vector_store # None)

\* C11: a RAGSystem has qa_chain set only if vector_store is set;
\* setup_qa_chain with vector_store unset raises and qa_chain stays unset;
\* build_vector_store with no documents and no snapshot to load raises and
\* vector_store stays as it was (unset, if it was unset).
C11_CliStateOrder ==
    [][ /\ ChainOnlyOverStore(rag_system)
        /\ ChainOnlyOverStore(rag_system')
        /\ (app = "main" /\ last'.op = "setup_qa_chain"
              /\ Val(rag_system).vector_store = None)
           => /\ last'.outcome = "ValueError"
              /\ Val(rag_system').qa_chain = None
        /\ (app = "main" /\ last'.op = "build_vector_store"
              /\ last'.arg.documents = <<>>
              /\ (~last'.arg.with_path \/ faiss_index = None))
           => /\ last'.outcome = "ValueError"
              /\ Val(rag_system').vector_store = Val(rag_system).vector_store
      ]_vars

\* setup_qa_chain was refused on a RAGSystem without a store.
C11_Witness ==
    /\ app = "main"
    /\ last.op = "setup_qa_chain"
    /\ last.outcome = "ValueError"
    /\ Val(rag_system).vector_store = None
    /\ Val(rag_system).qa_chain = None

\* What clean_text is to leave: no NUL, no whitespace at either end, no two
\* whitespace characters side by side.
Cleaned(r) ==
    /\ \A i \in 1..Len(r) : r[i] # NUL
    /\ r # <<>> => (r[1] \notin Whitespace /\ r[Len(r)] \notin Whitespace)
    /\ \A i \in 1..(Len(r) - 1) :
          ~(r[i] \in Whitespace /\ r[i + 1] \in Whitespace)

\* C12: for every text, clean_text(text) has no NUL, no leading or trailing
\* whitespace and no two adjacent whitespace characters, and cleaning it
\* again changes nothing.
C12_CleanTextNormalises ==
    (app = "text_processing" /\ last.op = "clean_text")
        => /\ Cleaned(last.ret)
           /\ clean_text(last.ret) = last.ret

\* C13: every call of the web answer_question returns a pair
\* (answer, sources), so the unpacking in main succeeds for every question.
C13_AnswerIsAlwaysAPair ==
    (app = "streamlit_app" /\ last.op = "get_answer"
        /\ last.outcome # "no question")
    => /\ last.ret.kind = "tuple"
       /\ last.outcome = "displayed"

\* The last operation was a build_vector_store that returned normally, called
\* directly or by initialize_system; the documents and the path it was given.
BuiltNormally ==
    \/ last.op = "build_vector_store" /\ last.outcome \in {"loaded", "built"}
    \/ last.op = "initialize_system" /\ last.outcome = "initialized"
GivenDocuments ==
    IF last.op = "initialize_system"
    THEN load_pdfs_from_directory(CliLoader, last.arg)
    ELSE last.arg.documents
GivenPath == last.op = "initialize_system" \/ last.arg.with_path
LiveStore == Val(Val(rag_system).vector_store)

\* C14: after build_vector_store(documents, vector_store_path) returns
\* normally, the live vector store holds one record for every chunk in
\* documents and nothing else, whatever runs went before against that path.
C14_StoreHoldsExactlyDocuments ==
    (app = "main" /\ BuiltNormally) => LiveStore.docs = GivenDocuments

\* C14, amended: after build_vector_store returns normally, the live store is
\* the snapshot found at the path, unchanged, if a path was given and a
\* snapshot existed there; otherwise it holds one record for every chunk in
\* documents and nothing else, and is saved at the path when one is given.
C14_StoreHoldsSnapshotOrDocuments ==
    [][ (app = "main" /\ BuiltNormally')
        => IF GivenPath' /\ faiss_index # None
           THEN /\ Val(rag_system').vector_store = faiss_index
                /\ faiss_index' = faiss_index
           ELSE /\ LiveStore'.docs = GivenDocuments'
                /\ IF GivenPath'
                   THEN faiss_index' = Val(rag_system').vector_store
                   ELSE faiss_index' = faiss_index
      ]_vars

\* A build was given documents other than those of the snapshot it loaded.
C14_Witness ==
    /\ app = "main"
    /\ last.op = "build_vector_store"
    /\ last.outcome = "loaded"
    /\ last.arg.documents # <<>>
    /\ LiveStore.docs # last.arg.documents

\* C15: in the web session documents_loaded is true only if the collection
\* holds at least one record, also after process_pdf of a document with no
\* chunks and after any interleaving of process_pdf and Clear Database.
C15_LoadedOnlyIfCollectionNonEmpty ==
    (app = "streamlit_app" /\ documents_loaded)
        => get_collection_count(collection) > 0

====
